---- MODULE Spec2Model ----
(***************************************************************************)
(* TCP connect scanner of Sky-And-Ground/port_scanner.                     *)
(*                                                                         *)
(* Three programs share the code modelled here:                            *)
(*   - port_scanner_linux.cpp : config file -> thread-pool scan (256)      *)
(*   - part_000, lines 1-417  : interactive -> thread-pool scan (N asked)  *)
(*   - part_000, lines 420-672: config file -> asio event-loop scan        *)
(*                                                                         *)
(* Spec        : one scan, thread-pool variant or asio variant             *)
(* SpecConnect : Socket::connect as a function of the system calls' answers*)
(* SpecFront   : the two front ends (config_extract, interactive main)     *)
(* SpecParse   : ConfigParser::parse reading one line of the config file   *)
(* SpecTwice   : the scan of Spec made twice with the same inputs          *)
(* SpecLive    : the thread-pool scan under fair scheduling, shutdown twice*)
(***************************************************************************)
EXTENDS Integers, Sequences, FiniteSets, TLC

\* ------------------------------------------------------------------ bounds
\* ports of a modelled scan are 0..MaxPort
MaxPort == 1
\* thread pool sizes 0..MaxWorkers
MaxWorkers == 2
\* lines of the config file have at most MaxLen characters
MaxLen == 5

\* ------------------------------------------------------- program constants
\* std::bitset<65536>
TableSize == 65536
\* bits of one word of the bitset's storage (unsigned long)
WordBits == 64
\* scan_all is called three times by the asio PortScanner::scan
Passes == 3

Ports == 0..MaxPort

\* what the network does with a connection request to a port:
\*   open    : accepts within the timeout
\*   late    : would accept, but only after the wait has returned
\*   refused : never accepts
NetKinds == {"open", "late", "refused"}

VARIABLES
    variant,        \* "pool" | "asio": which scanner runs
    port_start,     \* first port of the range
    port_end,       \* last port of the range
    threadPoolSize, \* number of workers of the ThreadPool
    net,            \* [Ports -> NetKinds]: the network, fixed for the scan
    nrvo,           \* whether the build elides the copy of `return table`
    tasks,          \* TaskQueue::tasks, each task named by its captured port i
    running,        \* TaskQueue::running
    mainpc,         \* position of the thread that called scan
    loop_i,         \* the loop variable i of scan / scan_all
    wpc,            \* [worker -> position]
    wtask,          \* [worker -> port of the task it runs, -1 when none]
    wret,           \* [worker -> value port_scan returned]
    wword,          \* [worker -> word of the bitset it read inside table.set]
    table,          \* the ports table: the set of indices whose bit is set
    tableAlive,     \* whether the local `table` is within its lifetime
    result,         \* the table the caller obtains ({} until it has it)
    attempts,       \* [Ports -> number of connection attempts started]
    outcome,        \* [Ports -> "none" | "open" | "closed"]: what port_scan returned
    acquired,       \* [Ports -> sockets acquired for it]
    released,       \* [Ports -> sockets released for it]
    cause,          \* [Ports -> what the environment did to its attempt]
    wsock,          \* [worker -> Socket::sock of the Socket in port_scan]
    openFds,        \* the descriptors the process holds open
    pass,           \* asio: which of the three scan_all calls is running
    att,            \* asio: [Ports -> [AttStates -> number of attempts there]]
    printed,        \* the ports main has written after "opened tcp ports: "
    shutdowns,      \* the ThreadPool::shutdown calls that have returned
    run,            \* SpecTwice: 1 in the first scan, 2 in the repeated one
    first,          \* SpecTwice: what the first scan reported, once repeated
    platform,       \* SpecConnect: "posix" | "windows"
    cenv,           \* SpecConnect: the system calls' answers to this call
    cpc,            \* SpecConnect: "call" | "returned"
    cresult,        \* SpecConnect: what Socket::connect returned
    front,          \* SpecFront: "config" | "interactive": which main runs
    input,          \* SpecFront: the text given for each key / prompt
    config,         \* SpecFront: the Config object of main
    fpc,            \* SpecFront: "start" | "scan" | "exit1" | "scanned" | "abort"
    ferr,           \* SpecFront: ConfigExtractError, or the message of main
    scan_args,      \* SpecFront: the arguments main calls scan with
    argc,           \* SpecFront: main's argc
    file_opens,     \* SpecFront: whether the file argv[1] names can be opened
    line,           \* SpecParse: the line std::getline has read
    resultMap,      \* SpecParse: the map of parse, a set of <<key, value>>
    ppc             \* SpecParse: "read" | "done"

vars == <<variant, port_start, port_end, threadPoolSize, net, nrvo, tasks,
          running, mainpc, loop_i, wpc, wtask, wret, wword, table, tableAlive,
          result, attempts, outcome, acquired, released, cause, wsock,
          openFds, pass, att, printed, shutdowns, run, first, platform, cenv, cpc, cresult, front, input,
          config, fpc, ferr, scan_args, argc, file_opens, line, resultMap,
          ppc>>

\* ---------------------------------------------------------- Socket::connect
\* The answers of the system calls made by one Socket::connect:
\*   pton    inet_pton(...) > 0
\*   getfl   fcntl(F_GETFL) != -1          setfl   fcntl(F_SETFL) != -1
\*   conn    ::connect: "ok" (0), "inprogress" (EINPROGRESS), "error"
\*   poll    return value of poll          revents pfd.revents
\*   gso     return value of getsockopt    soerr   SO_ERROR read
OkEnv ==
    [pton |-> TRUE, getfl |-> TRUE, setfl |-> TRUE, conn |-> "inprogress",
     poll |-> 1, revents |-> {"POLLOUT"}, gso |-> 0, soerr |-> 0]

\* mutant: the wait's timeout (poll returning 0) is not treated as a failure
SocketConnect_TimeoutFallsThrough(env) ==
    IF ~env.pton THEN FALSE
    ELSE IF ~env.getfl THEN FALSE
    ELSE IF ~env.setfl THEN FALSE
    ELSE IF env.conn = "ok" THEN TRUE
    ELSE IF env.conn # "inprogress" THEN FALSE
    ELSE IF env.poll < 0 THEN FALSE
    ELSE IF env.gso = -1 THEN FALSE
    ELSE env.soerr = 0

\* mutant: the pending error read by getsockopt is not looked at
SocketConnect_IgnoresSoError(env) ==
    IF ~env.pton THEN FALSE
    ELSE IF ~env.getfl THEN FALSE
    ELSE IF ~env.setfl THEN FALSE
    ELSE IF env.conn = "ok" THEN TRUE
    ELSE IF env.conn # "inprogress" THEN FALSE
    ELSE IF env.poll <= 0 THEN FALSE
    ELSE IF env.gso = -1 THEN FALSE
    ELSE TRUE

SocketConnect(env) ==
    IF ~env.pton THEN FALSE
    ELSE IF ~env.getfl THEN FALSE
    ELSE IF ~env.setfl THEN FALSE
    ELSE IF env.conn = "ok" THEN TRUE
    ELSE IF env.conn # "inprogress" THEN FALSE
    ELSE IF env.poll <= 0 THEN FALSE
    ELSE IF env.gso = -1 THEN FALSE
    ELSE env.soerr = 0

\* Socket::connect of the Windows build. select's writefds holds the socket
\* iff POLLOUT is among revents, its exceptfds iff POLLERR or POLLHUP is.
SocketConnectWin(env) ==
    IF ~env.pton THEN FALSE
    ELSE IF env.conn = "error" THEN FALSE
    ELSE IF env.poll <= 0 THEN FALSE
    ELSE IF env.revents \cap {"POLLERR", "POLLHUP"} # {} THEN FALSE
    ELSE IF env.gso = 0 THEN env.soerr = 0
    ELSE FALSE

\* Every combination of answers the system can give: the wait returns a
\* positive count iff it reports some event, and it reports POLLERR iff the
\* socket has a pending error (the value SO_ERROR reads).
AllEnvs ==
    {e \in [pton : BOOLEAN, getfl : BOOLEAN, setfl : BOOLEAN,
            conn : {"ok", "inprogress", "error"}, poll : {-1, 0, 1},
            revents : SUBSET {"POLLOUT", "POLLERR", "POLLHUP"},
            gso : {-1, 0}, soerr : {0, 111}] :
        /\ (e.poll = 1) <=> (e.revents # {})
        /\ e.poll = 1 => (("POLLERR" \in e.revents) <=> (e.soerr # 0))}

\* mutant: descriptor 0 is taken for "no socket" and never closed
DtorCloses_NotFdZero(sock) == sock > 0
\* Socket::~Socket closes exactly when sock >= 0
DtorCloses(sock) == sock >= 0
\* the descriptors ~Socket closes
Closed(sock) == IF DtorCloses(sock) THEN {sock} ELSE {}
\* mutant: a failing path closes the descriptor and ~Socket closes it again
CloseCount_Twice(sock) == IF DtorCloses(sock) THEN 2 ELSE 0
\* how many close calls are made on the descriptor of one Socket
CloseCount(sock) == IF DtorCloses(sock) THEN 1 ELSE 0

\* mutant: the loop stops one port short
LoopCond_Exclusive(i, e) == i < e
\* the loop condition of scan and scan_all: i <= port_end
LoopCond(i, e) == i <= e

\* answers a port of each kind can give to an attempt whose local calls work
NetEnvs(kind) ==
    CASE kind = "open" ->
            {OkEnv, [OkEnv EXCEPT !.conn = "ok", !.poll = 0, !.revents = {}]}
      [] kind = "late" ->
            {[OkEnv EXCEPT !.poll = 0, !.revents = {}]}
      [] OTHER ->
            {[OkEnv EXCEPT !.conn = "error", !.poll = 0, !.revents = {}],
             [OkEnv EXCEPT !.revents = {"POLLOUT", "POLLERR", "POLLHUP"},
                           !.soerr = 111]}

\* answers of a local call failing, whatever the port does
LocalFailEnvs ==
    {[OkEnv EXCEPT !.getfl = FALSE], [OkEnv EXCEPT !.setfl = FALSE],
     [OkEnv EXCEPT !.poll = -1, !.revents = {}], [OkEnv EXCEPT !.gso = -1]}

PoolEnvs(kind) == NetEnvs(kind) \cup LocalFailEnvs

\* what the environment did, read off the answers alone
CauseOf(env) ==
    IF env \in LocalFailEnvs THEN "localfail"
    ELSE IF env.conn = "ok" THEN "accepted"
    ELSE IF env.conn = "error" THEN "refused"
    ELSE IF env.poll = 0 THEN "timeout"
    ELSE IF env.soerr = 0 THEN "accepted" ELSE "refused"

Classify(b) == IF b THEN "open" ELSE "closed"

\* ------------------------------------------------------------- bitset words
WordOf(p) == p \div WordBits
WordAt(t, p) == {q \in t : WordOf(q) = WordOf(p)}
\* std::bitset::set(pos, val) on one word: word |= mask or word &= ~mask
SetBit(word, p, val) == IF val THEN word \cup {p} ELSE word \ {p}

\* ---------------------------------------------------------------- ThreadPool
Workers == 1..threadPoolSize
Waiting == {w \in Workers : wpc[w] = "waiting"}
\* ::socket returns the lowest descriptor not in use
NewFd ==
    CHOOSE fd \in 0..(MaxPort + 1) :
        fd \notin openFds /\ \A g \in 0..(fd - 1) : g \in openFds

\* mutant: pop gives up as soon as the queue is shut down, tasks left or not
PopFails_NoDrain(q, r) == ~r
\* TaskQueue::pop: if (tasks.empty() && !running) return false;
PopFails(q, r) == q = <<>> /\ ~r

\* cv.notify_one(): one waiting worker, if any, leaves cv.wait
NotifyOne(pc) ==
    IF Waiting = {} THEN {pc}
    ELSE {[pc EXCEPT ![w] = "pop"] : w \in Waiting}
\* mutant: the notification of shutdown reaches no waiting worker
NotifyAll_Lost(pc) == pc
\* cv.notify_all()
NotifyAll(pc) == [w \in Workers |-> IF pc[w] = "waiting" THEN "pop" ELSE pc[w]]

\* asio: An attempt is the pair of handlers port_scan starts: the async_connect
\* handler and the timer's async_wait handler.
\*   pending   : neither has run
\*   connected : the connect handler ran with no error, the timer is pending
\*   failed    : the connect handler ran with an error, the timer is pending
\*   fin_ok, fin_fail : as connected / failed, and the timer handler has run
\*   timedout  : the timer handler ran first and cancelled the socket; the
\*               connect handler ran with operation_aborted
AttStates == {"pending", "connected", "failed", "fin_ok", "fin_fail", "timedout"}
NoAttempts == [s \in AttStates |-> 0]

\* no scan has been repeated
NoFirst == [opened |-> {}, localfail |-> FALSE]

poolVars == <<tasks, running, wpc, wtask, wret, wword, wsock>>
connectVars == <<platform, cenv, cpc, cresult>>
frontVars == <<front, input, config, fpc, ferr, scan_args, argc, file_opens>>
parseVars == <<line, resultMap, ppc>>
inputVars == <<variant, port_start, port_end, threadPoolSize, net, nrvo,
               printed, run, first, connectVars, frontVars, parseVars>>
scanVars == <<inputVars, shutdowns>>
asioVars == <<pass, att>>

\* TaskQueue::pop finds a task; the worker runs it: port_scan constructs the
\* Socket and calls open_tcp_mode, which may fail (then && skips connect and
\* port_scan returns false)
WorkerTake(w) ==
    /\ variant = "pool"
    /\ wpc[w] = "pop"
    /\ tasks # <<>>
    /\ LET p == Head(tasks) IN
        /\ tasks' = Tail(tasks)
        /\ wtask' = [wtask EXCEPT ![w] = p]
        /\ attempts' = [attempts EXCEPT ![p] = @ + 1]
        /\ \/ /\ wsock' = [wsock EXCEPT ![w] = NewFd]
              /\ openFds' = openFds \cup {NewFd}
              /\ acquired' = [acquired EXCEPT ![p] = @ + 1]
              /\ wpc' = [wpc EXCEPT ![w] = "connect"]
              /\ UNCHANGED <<wret, cause, outcome, released>>
           \/ /\ wsock' = [wsock EXCEPT ![w] = -1]
              /\ wret' = [wret EXCEPT ![w] = FALSE]
              /\ cause' = [cause EXCEPT ![p] = "localfail"]
              /\ outcome' = [outcome EXCEPT ![p] = "closed"]
              /\ wpc' = [wpc EXCEPT ![w] = "set_load"]
              /\ released' = [released EXCEPT ![p] = @ + CloseCount(-1)]
              /\ openFds' = openFds \ Closed(-1)
              /\ UNCHANGED acquired
    /\ UNCHANGED <<asioVars, scanVars, running, mainpc, loop_i, wword, table,
                   tableAlive, result>>

\* TaskQueue::pop, queue empty and running: cv.wait
WorkerWait(w) ==
    /\ variant = "pool"
    /\ wpc[w] = "pop"
    /\ tasks = <<>>
    /\ running
    /\ wpc' = [wpc EXCEPT ![w] = "waiting"]
    /\ UNCHANGED <<asioVars, scanVars, tasks, running, mainpc, loop_i, wtask, wret, wword,
                   table, tableAlive, result, attempts, outcome, acquired,
                   released, cause, wsock, openFds>>

\* cv.wait may return without a notification
WorkerSpuriousWake(w) ==
    /\ variant = "pool"
    /\ wpc[w] = "waiting"
    /\ wpc' = [wpc EXCEPT ![w] = "pop"]
    /\ UNCHANGED <<asioVars, scanVars, tasks, running, mainpc, loop_i, wtask, wret, wword,
                   table, tableAlive, result, attempts, outcome, acquired,
                   released, cause, wsock, openFds>>

\* TaskQueue::pop returns false: the worker's loop and thread end
WorkerExit(w) ==
    /\ variant = "pool"
    /\ wpc[w] = "pop"
    /\ PopFails(tasks, running)
    /\ wpc' = [wpc EXCEPT ![w] = "exited"]
    /\ UNCHANGED <<asioVars, scanVars, tasks, running, mainpc, loop_i, wtask, wret, wword,
                   table, tableAlive, result, attempts, outcome, acquired,
                   released, cause, wsock, openFds>>

\* Socket::connect returns, then port_scan returns: ~Socket runs
WorkerConnect(w) ==
    /\ variant = "pool"
    /\ wpc[w] = "connect"
    /\ LET p == wtask[w] IN
       \E env \in PoolEnvs(net[p]) :
        /\ wret' = [wret EXCEPT ![w] = SocketConnect(env)]
        /\ cause' = [cause EXCEPT ![p] = CauseOf(env)]
        /\ outcome' = [outcome EXCEPT ![p] = Classify(SocketConnect(env))]
        /\ openFds' = openFds \ Closed(wsock[w])
        /\ released' = [released EXCEPT ![p] = @ + CloseCount(wsock[w])]
    /\ wsock' = [wsock EXCEPT ![w] = -1]
    /\ wpc' = [wpc EXCEPT ![w] = "set_load"]
    /\ UNCHANGED <<asioVars, scanVars, tasks, running, mainpc, loop_i, wtask, wword,
                   table, tableAlive, result, attempts, acquired>>

\* table.set(i, v), first half: the word holding bit i is read
WorkerSetLoad(w) ==
    /\ variant = "pool"
    /\ wpc[w] = "set_load"
    /\ wword' = [wword EXCEPT ![w] = WordAt(table, wtask[w])]
    /\ wpc' = [wpc EXCEPT ![w] = "set_store"]
    /\ UNCHANGED <<asioVars, scanVars, tasks, running, mainpc, loop_i, wtask, wret, table,
                   tableAlive, result, attempts, outcome, acquired, released,
                   cause, wsock, openFds>>

\* table.set(i, v), second half: the word is written back with bit i changed
WorkerSetStore(w) ==
    /\ variant = "pool"
    /\ wpc[w] = "set_store"
    /\ LET p == wtask[w] IN
        table' = (table \ WordAt(table, p)) \cup SetBit(wword[w], p, wret[w])
    /\ wpc' = [wpc EXCEPT ![w] = "pop"]
    /\ wtask' = [wtask EXCEPT ![w] = -1]
    /\ wword' = [wword EXCEPT ![w] = {}]
    /\ UNCHANGED <<asioVars, scanVars, tasks, running, mainpc, loop_i, wret, tableAlive,
                   result, attempts, outcome, acquired, released, cause, wsock,
                   openFds>>

\* one iteration of scan's loop: threadPool.submit -> TaskQueue::push
MainSubmit ==
    /\ variant = "pool"
    /\ mainpc = "submit"
    /\ LoopCond(loop_i, port_end)
    /\ tasks' = Append(tasks, loop_i)
    /\ wpc' \in NotifyOne(wpc)
    /\ loop_i' = loop_i + 1
    /\ UNCHANGED <<asioVars, scanVars, running, mainpc, wtask, wret, wword, table,
                   tableAlive, result, attempts, outcome, acquired, released,
                   cause, wsock, openFds>>

\* `return table`: without copy elision the result is copied out here and the
\* local table's lifetime ends; then ~ThreadPool starts: TaskQueue::shutdown
MainReturn ==
    /\ variant = "pool"
    /\ mainpc = "submit"
    /\ ~LoopCond(loop_i, port_end)
    /\ IF nrvo THEN UNCHANGED <<result, tableAlive>>
               ELSE result' = table /\ tableAlive' = FALSE
    /\ running' = FALSE
    /\ wpc' = NotifyAll(wpc)
    /\ mainpc' = "join"
    /\ UNCHANGED <<asioVars, scanVars, tasks, loop_i, wtask, wret, wword, table, attempts,
                   outcome, acquired, released, cause, wsock, openFds>>

\* std::thread::joinable: true until the thread has been joined, which the
\* first shutdown does
Joinable(w) == shutdowns = 0
\* the loop of ThreadPool::shutdown can pass worker w: t.join() is not
\* called, or returns because the thread has ended
JoinPasses(w) == ~Joinable(w) \/ wpc[w] = "exited"

\* ThreadPool::shutdown has joined every worker; scan returns to its caller.
\* With copy elision the local table is the caller's object.
MainJoin ==
    /\ variant = "pool"
    /\ mainpc = "join"
    /\ \A w \in Workers : JoinPasses(w)
    /\ mainpc' = "done"
    /\ shutdowns' = shutdowns + 1
    /\ result' = IF nrvo THEN table ELSE result
    /\ UNCHANGED <<asioVars, inputVars, tasks, running, loop_i, wpc, wtask, wret, wword,
                   table, tableAlive, attempts, outcome, acquired, released,
                   cause, wsock, openFds>>

\* ------------------------------------------------- ConfigParser: one line
\* the characters tried in a line: a blank, the separator, a letter
Chars == {" ", "=", "a"}
\* isspace
IsSpace(c) == c = " "

\* while (i < line.length() && isspace(line[i])) ++i;
RECURSIVE SkipSpaces(_, _)
SkipSpaces(l, i) ==
    IF i <= Len(l) /\ IsSpace(l[i]) THEN SkipSpaces(l, i + 1) ELSE i
\* while (i < line.length() && !isspace(line[i])) { ++i; ++keyLength; }
RECURSIVE SkipKey(_, _)
SkipKey(l, i) ==
    IF i <= Len(l) /\ ~IsSpace(l[i]) THEN SkipKey(l, i + 1) ELSE i
\* while (i < line.length() && line[i] != '=') ++i;
RECURSIVE FindEq(_, _)
FindEq(l, i) ==
    IF i <= Len(l) /\ l[i] # "=" THEN FindEq(l, i + 1) ELSE i
\* while (i > valueStart && isspace(line[i])) { --i; --valueLength; }
RECURSIVE TrimEnd(_, _, _)
TrimEnd(l, i, valueStart) ==
    IF i > valueStart /\ IsSpace(l[i]) THEN TrimEnd(l, i - 1, valueStart) ELSE i

\* std::map::emplace: nothing is stored when the key is already there
Emplace(map, key, value) ==
    IF \E pr \in map : pr[1] = key THEN map ELSE map \cup {<<key, value>>}

\* process_line(line, resultMap): the map it leaves. Positions count from 1,
\* so the code's `i >= line.length()` is i > Len(l).
process_line(l, map) ==
    LET keyStart == SkipSpaces(l, 1) IN
    IF keyStart > Len(l) THEN map ELSE
    LET keyEnd == SkipKey(l, keyStart) IN
    IF keyEnd > Len(l) THEN map ELSE
    LET eq == FindEq(l, keyEnd) IN
    IF eq > Len(l) THEN map ELSE
    LET valueStart == SkipSpaces(l, eq + 1) IN
    IF valueStart > Len(l) THEN map ELSE
    LET valueEnd == TrimEnd(l, Len(l), valueStart) IN
    Emplace(map, SubSeq(l, keyStart, keyEnd - 1), SubSeq(l, valueStart, valueEnd))

\* no line is being parsed
ParseIdle ==
    /\ line = << >>
    /\ resultMap = {}
    /\ ppc = "done"

\* ThreadPool::shutdown called once more after it has returned (an explicit
\* shutdown followed by ~ThreadPool): TaskQueue::shutdown again, then the
\* loop over the workers, which joins the joinable ones
ShutdownAgain ==
    /\ variant = "pool"
    /\ mainpc = "done"
    /\ shutdowns = 1
    /\ running' = FALSE
    /\ wpc' = NotifyAll(wpc)
    /\ \A w \in Workers : JoinPasses(w)
    /\ shutdowns' = shutdowns + 1
    /\ UNCHANGED <<asioVars, inputVars, tasks, loop_i, mainpc, wtask, wret,
                   wword, table, tableAlive, result, attempts, outcome,
                   acquired, released, cause, wsock, openFds>>

\* ------------------------------------------------------- main: the output
\* mutant: the test of the table's bit is dropped, every index is written
PrintTest_Any(t, i) == TRUE
\* portsTable.test(i)
PrintTest(t, i) == i \in t
\* the loop condition i < portsTable.size(); the bits past MaxPort are
\* never set in a modelled scan and the loop is cut there
PrintCond(i) == i <= MaxPort
\* the loop writing the opened ports, from index i on, out written so far
RECURSIVE PrintFrom(_, _, _)
PrintFrom(i, t, out) ==
    IF ~PrintCond(i) THEN out
    ELSE PrintFrom(i + 1, t, IF PrintTest(t, i) THEN Append(out, i) ELSE out)

\* main after scan has returned: the opened ports are written in the order
\* of the table's indices, and main returns 0
MainPrint ==
    /\ mainpc = "done"
    /\ printed' = PrintFrom(0, result, << >>)
    /\ mainpc' = "exit0"
    /\ UNCHANGED <<variant, port_start, port_end, threadPoolSize, net, nrvo,
                   shutdowns, run, first, connectVars, frontVars, parseVars,
                   poolVars, asioVars, loop_i, table,
                   tableAlive, result, attempts, outcome, acquired, released,
                   cause, openFds>>

\* ------------------------------------------------------------ front ends
\* A text is a sequence of characters; Absent marks a key the config map
\* does not hold.
Absent == <<"absent">>
Digits == {"0", "1", "2", "3", "4", "5", "6", "7", "8", "9"}
DigitVal(c) ==
    CASE c = "0" -> 0 [] c = "1" -> 1 [] c = "2" -> 2 [] c = "3" -> 3
      [] c = "4" -> 4 [] c = "5" -> 5 [] c = "6" -> 6 [] c = "7" -> 7
      [] c = "8" -> 8 [] OTHER -> 9

\* `10 * acc + d` in int arithmetic: 32 bits, two's complement, wrapping.
\* Computed on the two 16-bit halves of acc, so that no intermediate value
\* leaves 32 bits.
Half == 65536
MulAdd32(acc, d) ==
    LET hi == acc \div Half
        lo == acc % Half
        t == 10 * lo + d
        hi2 == ((10 * hi + (t \div Half) + 32768) % Half) - 32768
    IN hi2 * Half + (t % Half)

\* the loop shared by parse_port, parse_positive_integer and str_to_int,
\* from character k on with the value acc so far
RECURSIVE ParseFrom(_, _, _)
ParseFrom(str, k, acc) ==
    IF k > Len(str) THEN acc
    ELSE IF str[k] \in Digits
         THEN ParseFrom(str, k + 1, MulAdd32(acc, DigitVal(str[k])))
         ELSE -1

\* parse_positive_integer (str_to_int in the interactive program)
parse_positive_integer(str) == ParseFrom(str, 1, 0)

\* parse_port
parse_port(str) ==
    LET port == ParseFrom(str, 1, 0) IN
    IF port > 65535 THEN -1 ELSE port

\* mutant: the larger of the two values is not looked for
Max_Second(a, b) == b
Min(a, b) == IF a < b THEN a ELSE b
Max(a, b) == IF a > b THEN a ELSE b

\* config_extract(configMap, config): the error returned and the Config left
config_extract(map, cfg) ==
    IF map.ip = Absent THEN [err |-> "not_found_ip", config |-> cfg]
    ELSE IF map.port_start = Absent
        THEN [err |-> "not_found_port_start", config |-> cfg]
    ELSE IF map.port_end = Absent
        THEN [err |-> "not_found_port_end", config |-> cfg]
    ELSE IF map.timeout_millisec = Absent
        THEN [err |-> "not_found_timeout_millisec", config |-> cfg]
    ELSE
      LET cfg1 == [cfg EXCEPT !.ip = map.ip]
          ps == parse_positive_integer(map.port_start)
          pe == parse_positive_integer(map.port_end)
          tm == parse_positive_integer(map.timeout_millisec)
      IN IF ps < 0 THEN [err |-> "invalid_port_start", config |-> cfg1]
         ELSE IF pe < 0 THEN [err |-> "invalid_port_end", config |-> cfg1]
         ELSE IF tm < 0
            THEN [err |-> "invalid_timeout_millisec", config |-> cfg1]
         ELSE [err |-> "success",
               config |-> [ip |-> map.ip, port_start |-> Min(ps, pe),
                           port_end |-> Max(ps, pe), timeout_millisec |-> tm]]

\* the interactive main, from its first prompt to its call of scan: the
\* message it exits with, or "" and the arguments of scan
interactive_main(inp) ==
    LET a == parse_port(inp.port_start)
        b == parse_port(inp.port_end)
        n == parse_positive_integer(inp.thread_pool_size)
        tm == parse_positive_integer(inp.timeout_millisec)
        s1 == IF a < b THEN a ELSE b
        e1 == IF s1 > b THEN s1 ELSE b
    IN IF a < 0 THEN [msg |-> "invalid start port"]
       ELSE IF b < 0 THEN [msg |-> "invalid end port"]
       ELSE IF n < 0 THEN [msg |-> "invalid thread pool size"]
       ELSE IF tm < 0 THEN [msg |-> "invalid timeout"]
       ELSE [msg |-> "", port_start |-> s1, port_end |-> e1,
             thread_pool_size |-> n, timeout_millisec |-> tm]

\* std::bitset::set and test throw std::out_of_range for pos >= size
OutOfRange(pos) == pos >= TableSize

\* no front end is under study
NoArgs == [port_start |-> 0, port_end |-> 0, thread_pool_size |-> 0,
           timeout_millisec |-> 0]
OldConfig == [ip |-> <<"o", "l", "d">>, port_start |-> 1, port_end |-> 2,
              timeout_millisec |-> 3]
FrontIdle ==
    /\ front = "none"
    /\ input = [ip |-> Absent, port_start |-> Absent, port_end |-> Absent,
                timeout_millisec |-> Absent, thread_pool_size |-> Absent]
    /\ config = OldConfig
    /\ fpc = "exit1"
    /\ ferr = ""
    /\ scan_args = NoArgs
    /\ argc = 1
    /\ file_opens = FALSE

\* no Socket::connect call is under study
ConnectIdle ==
    /\ platform = "posix"
    /\ cenv = OkEnv
    /\ cpc = "returned"
    /\ cresult = TRUE

\* the network of a scan: ports outside the range all accept
Networks(s, e) ==
    {n \in [Ports -> NetKinds] : \A p \in Ports : (p < s \/ p > e) => n[p] = "open"}

InitPool ==
    /\ variant = "pool"
    /\ port_start \in Ports
    /\ port_end \in port_start..MaxPort
    /\ threadPoolSize \in 0..MaxWorkers
    /\ net \in Networks(port_start, port_end)
    /\ nrvo \in BOOLEAN
    /\ tasks = <<>>
    /\ running = TRUE
    /\ mainpc = "submit"
    /\ loop_i = port_start
    /\ wpc = [w \in Workers |-> "pop"]
    /\ wtask = [w \in Workers |-> -1]
    /\ wret = [w \in Workers |-> FALSE]
    /\ wword = [w \in Workers |-> {}]
    /\ wsock = [w \in Workers |-> -1]
    /\ table = {}
    /\ tableAlive = TRUE
    /\ result = {}
    /\ attempts = [p \in Ports |-> 0]
    /\ outcome = [p \in Ports |-> "none"]
    /\ cause = [p \in Ports |-> "none"]
    /\ acquired = [p \in Ports |-> 0]
    /\ released = [p \in Ports |-> 0]
    /\ openFds = {}
    /\ pass = 1
    /\ att = [p \in Ports |-> NoAttempts]
    /\ printed = << >>
    /\ shutdowns = 0
    /\ run = 1
    /\ first = NoFirst
    /\ ConnectIdle
    /\ FrontIdle
    /\ ParseIdle

NextPool ==
    \/ MainSubmit
    \/ MainReturn
    \/ MainJoin
    \/ \E w \in Workers : WorkerTake(w)
    \/ \E w \in Workers : WorkerWait(w)
    \/ \E w \in Workers : WorkerSpuriousWake(w)
    \/ \E w \in Workers : WorkerExit(w)
    \/ \E w \in Workers : WorkerConnect(w)
    \/ \E w \in Workers : WorkerSetLoad(w)
    \/ \E w \in Workers : WorkerSetStore(w)

\* ------------------------------------------------------- asio PortScanner
Move(bag, from, to) == [bag EXCEPT ![from] = @ - 1, ![to] = @ + 1]

\* mutant: a failed attempt records the port as closed
ConnectHandler_ClearsOnError(t, port, ec) ==
    IF ~ec THEN t \cup {port} ELSE t \ {port}
\* the connect handler: if (!ec) table.set(port, true)
ConnectHandler(t, port, ec) == IF ~ec THEN t \cup {port} ELSE t

\* error codes an attempt's connect can complete with before its timer expires
AsioCompletions(kind) ==
    CASE kind = "open" -> {FALSE, TRUE}
      [] kind = "late" -> {TRUE}
      [] OTHER -> {TRUE}

\* whether the timer can expire while the connect is still pending
AsioCanTimeOut(kind) == kind # "open"

\* scan_all: one iteration of its loop; port_scan starts an attempt
AsioScanAllStep ==
    /\ variant = "asio"
    /\ mainpc = "scan_all"
    /\ LoopCond(loop_i, port_end)
    /\ IF loop_i \notin table
         THEN /\ att' = [att EXCEPT ![loop_i]["pending"] = @ + 1]
              /\ attempts' = [attempts EXCEPT ![loop_i] = @ + 1]
              /\ acquired' = [acquired EXCEPT ![loop_i] = @ + 1]
         ELSE UNCHANGED <<att, attempts, acquired>>
    /\ loop_i' = loop_i + 1
    /\ UNCHANGED <<scanVars, poolVars, mainpc, table, tableAlive, result,
                   outcome, released, cause, openFds, pass>>

\* scan_all returns: scan calls it again, or calls ioc.run()
AsioScanAllReturn ==
    /\ variant = "asio"
    /\ mainpc = "scan_all"
    /\ ~LoopCond(loop_i, port_end)
    /\ IF pass < Passes
         THEN pass' = pass + 1 /\ loop_i' = port_start /\ UNCHANGED mainpc
         ELSE mainpc' = "run" /\ UNCHANGED <<pass, loop_i>>
    /\ UNCHANGED <<scanVars, poolVars, table, tableAlive, result, attempts,
                   outcome, acquired, released, cause, openFds, att>>

\* ioc.run() runs the connect handler of a completed async_connect
AsioConnectDone(p) ==
    /\ variant = "asio"
    /\ mainpc = "run"
    /\ att[p]["pending"] > 0
    /\ \E ec \in AsioCompletions(net[p]) :
        /\ table' = ConnectHandler(table, p, ec)
        /\ att' = [att EXCEPT ![p] =
                     Move(@, "pending", IF ec THEN "failed" ELSE "connected")]
        /\ outcome' = [outcome EXCEPT ![p] =
                     IF ~ec \/ @ = "open" THEN "open" ELSE "closed"]
    /\ UNCHANGED <<scanVars, poolVars, mainpc, loop_i, tableAlive, result,
                   attempts, acquired, released, cause, openFds, pass>>

\* ioc.run() runs the timer handler of an attempt whose connect is pending:
\* socket->cancel(), and the connect handler runs with operation_aborted
AsioTimeout(p) ==
    /\ variant = "asio"
    /\ mainpc = "run"
    /\ att[p]["pending"] > 0
    /\ AsioCanTimeOut(net[p])
    /\ table' = ConnectHandler(table, p, TRUE)
    /\ att' = [att EXCEPT ![p] = Move(@, "pending", "timedout")]
    /\ released' = [released EXCEPT ![p] = @ + 1]
    /\ outcome' = [outcome EXCEPT ![p] = IF @ = "open" THEN "open" ELSE "closed"]
    /\ UNCHANGED <<scanVars, poolVars, mainpc, loop_i, tableAlive, result,
                   attempts, acquired, cause, openFds, pass>>

\* ioc.run() runs the timer handler of an attempt whose connect handler has
\* run: cancel() finds nothing pending; the last owner of the socket goes
AsioTimerAfter(p) ==
    /\ variant = "asio"
    /\ mainpc = "run"
    /\ \E from \in {"connected", "failed"} :
        /\ att[p][from] > 0
        /\ att' = [att EXCEPT ![p] =
                     Move(@, from, IF from = "connected" THEN "fin_ok" ELSE "fin_fail")]
    /\ released' = [released EXCEPT ![p] = @ + 1]
    /\ UNCHANGED <<scanVars, poolVars, mainpc, loop_i, table, tableAlive, result,
                   attempts, outcome, acquired, cause, openFds, pass>>

\* ioc.run() returns when no handler is left; scan returns; main reads
\* get_ports_table()
AsioRunReturn ==
    /\ variant = "asio"
    /\ mainpc = "run"
    /\ \A p \in Ports : \A st \in {"pending", "connected", "failed"} : att[p][st] = 0
    /\ mainpc' = "done"
    /\ result' = table
    /\ UNCHANGED <<scanVars, poolVars, loop_i, table, tableAlive, attempts,
                   outcome, acquired, released, cause, openFds, pass, att>>

\* mutant: the handler swallows the error and main goes on to its output
AsioMainCatch_Swallows(ex) == "done"
\* the try block of the asio main: where control goes when the exception
\* ex leaves scan. Both handlers return 1; any other exception is uncaught.
AsioMainCatch(ex) ==
    IF ex \in {"FileNotFoundException", "asio::system_error"} THEN "exit1"
    ELSE "terminate"

\* an asio::system_error is thrown inside scan: by port_scan (make_address,
\* the socket's or the timer's calls) during one of the scan_all loops, or
\* out of ioc.run() (the loop itself, or socket->cancel() in a timer
\* handler). It unwinds scan and main's try block, whose local `scanner` is
\* destroyed: its io_context drops the handlers not yet run, the sockets
\* they own are closed, and its table is gone. Then main's handler runs.
AsioSystemError ==
    /\ variant = "asio"
    /\ \/ mainpc = "scan_all" /\ LoopCond(loop_i, port_end)
       \/ mainpc = "run"
    /\ mainpc' = AsioMainCatch("asio::system_error")
    /\ att' = [p \in Ports |-> NoAttempts]
    /\ released' = acquired
    /\ table' = {}
    /\ tableAlive' = FALSE
    /\ UNCHANGED <<scanVars, poolVars, loop_i, result, attempts, outcome,
                   acquired, cause, openFds, pass>>

InitAsio ==
    /\ variant = "asio"
    /\ port_start \in Ports
    /\ port_end \in port_start..MaxPort
    /\ threadPoolSize = 0
    /\ net \in Networks(port_start, port_end)
    /\ nrvo = TRUE
    /\ tasks = <<>>
    /\ running = TRUE
    /\ mainpc = "scan_all"
    /\ loop_i = port_start
    /\ wpc = << >>
    /\ wtask = << >>
    /\ wret = << >>
    /\ wword = << >>
    /\ wsock = << >>
    /\ table = {}
    /\ tableAlive = TRUE
    /\ result = {}
    /\ attempts = [p \in Ports |-> 0]
    /\ outcome = [p \in Ports |-> "none"]
    /\ cause = [p \in Ports |-> "none"]
    /\ acquired = [p \in Ports |-> 0]
    /\ released = [p \in Ports |-> 0]
    /\ openFds = {}
    /\ pass = 1
    /\ att = [p \in Ports |-> NoAttempts]
    /\ printed = << >>
    /\ shutdowns = 0
    /\ run = 1
    /\ first = NoFirst
    /\ ConnectIdle
    /\ FrontIdle
    /\ ParseIdle

NextAsio ==
    \/ AsioScanAllStep
    \/ AsioScanAllReturn
    \/ AsioRunReturn
    \/ AsioSystemError
    \/ \E p \in Ports : AsioConnectDone(p)
    \/ \E p \in Ports : AsioTimeout(p)
    \/ \E p \in Ports : AsioTimerAfter(p)

Init == InitPool \/ InitAsio
Next == NextPool \/ NextAsio \/ MainPrint
Spec == Init /\ [][Next]_vars

\* ======================================================== the scan's claims
Range == port_start..port_end
\* the ports that accept a connection within the timeout
Accepting == {p \in Ports : net[p] = "open"}
InsideSet == {w \in Workers : wpc[w] = "set_store"}

\* C1 (as claimed): the table the caller obtains from the thread-pool scan
\* has bit p set iff p is in the range and p accepts within the timeout.
\* Stated for the most favourable runs: the copy of `return table` elided,
\* at least one worker, no local call failing.
C1_ExactTable ==
    (/\ variant = "pool" /\ mainpc = "done" /\ nrvo /\ threadPoolSize >= 1
     /\ \A p \in Ports : cause[p] # "localfail")
        => result = Range \cap Accepting

\* C3 (as claimed): no two threads are ever inside a mutation of the shared
\* table at the same time.
C3_SingleMutator == Cardinality(InsideSet) <= 1

\* C6 (as claimed): recording a failed attempt (port_scan returned false)
\* changes the recorded outcome of no other port.
C6_FailureIsolated ==
    [][\A w \in Workers :
         (wpc[w] = "set_store" /\ wpc'[w] = "pop" /\ ~wret[w])
            => table' \ {wtask[w]} = table \ {wtask[w]}]_vars

\* C2: in a thread-pool scan the number of live connection attempts (open
\* sockets, attempts between open_tcp_mode and ~Socket) never exceeds the
\* thread-pool size.
Live == {p \in Ports : acquired[p] > released[p]}
C2_LiveWithinCapacity ==
    variant = "pool" =>
        /\ Cardinality(openFds) <= threadPoolSize
        /\ Cardinality(Live) <= threadPoolSize
\* every worker holds a socket while more ports wait in the queue
C2_Witness ==
    /\ variant = "pool" /\ threadPoolSize >= 1
    /\ Cardinality(openFds) = threadPoolSize
    /\ Cardinality(Live) = threadPoolSize
    /\ tasks # <<>>

\* C4 (as claimed): every port gets one connection attempt in a scan, never
\* a second one, in every variant.
C4_NeverSecondAttempt == \A p \in Ports : attempts[p] <= 1
\* C4 (amended): the thread-pool scan starts at most one attempt per port,
\* and by its return exactly one per port of the range (none with a pool of
\* no workers); the asio scan starts exactly three per port of the range,
\* all of them before the event loop runs; no port outside the range is
\* attempted.
C4_AttemptsPerVariant ==
    /\ \A p \in Ports \ Range : attempts[p] = 0
    /\ variant = "pool" =>
        /\ \A p \in Range : attempts[p] <= 1
        /\ mainpc = "done" =>
             \A p \in Range : attempts[p] = IF threadPoolSize = 0 THEN 0 ELSE 1
    /\ variant = "asio" =>
        /\ \A p \in Range : attempts[p] <= 3
        /\ mainpc \in {"run", "done"} => \A p \in Range : attempts[p] = 3
\* both kinds of scan have returned, over a range of two ports
C4_Witness ==
    /\ mainpc = "done" /\ port_start < port_end
    /\ \/ variant = "asio" /\ \A p \in Range : attempts[p] = 3
       \/ variant = "pool" /\ threadPoolSize = 1 /\ \A p \in Range : attempts[p] = 1

\* C5: an attempt whose wait returned before the connection completed is
\* classified closed, and a port that would accept only later is never
\* reported open. asio: a bit is set only by an attempt whose connect
\* completed without error before its timer expired.
C5_TimeoutMeansClosed ==
    /\ variant = "pool" =>
        \A p \in Ports :
            /\ cause[p] = "timeout" => outcome[p] = "closed"
            /\ (cause[p] = "timeout" \/ net[p] = "late") =>
                    (p \notin table /\ p \notin result)
            /\ \A w \in Workers :
                 (wtask[w] = p /\ cause[p] = "timeout") => ~wret[w]
    /\ variant = "asio" =>
        \A p \in Ports :
            /\ p \in table => att[p]["connected"] + att[p]["fin_ok"] > 0
            /\ net[p] = "late" => (p \notin table /\ p \notin result)
\* a scan is over in which the wait of a late port's attempt timed out
C5_Witness ==
    /\ mainpc = "done"
    /\ \E p \in Range :
        /\ net[p] = "late"
        /\ \/ variant = "pool" /\ cause[p] = "timeout"
           \/ variant = "asio" /\ att[p]["timedout"] = 3

\* C9: every socket open_tcp_mode acquired is released exactly once, on
\* every exit path of port_scan; a failed acquisition releases nothing; no
\* socket is open once the scan has returned.
InPortScan(p) == {w \in Workers : wtask[w] = p /\ wpc[w] = "connect"}
C9_ReleasedExactlyOnce ==
    variant = "pool" =>
        /\ \A p \in Ports :
            /\ released[p] <= acquired[p]
            /\ acquired[p] - released[p] = Cardinality(InPortScan(p))
        /\ openFds = {wsock[w] : w \in {v \in Workers : wpc[v] = "connect"}}
        /\ \A w \in Workers : wpc[w] # "connect" => wsock[w] = -1
        /\ mainpc = "done" =>
            /\ openFds = {}
            /\ \A p \in Ports : released[p] = acquired[p]
\* a scan is over in which one acquisition failed and one socket was
\* acquired and released
C9_Witness ==
    /\ variant = "pool" /\ mainpc = "done"
    /\ \E p, q \in Range :
        /\ acquired[p] = 1 /\ released[p] = 1
        /\ acquired[q] = 0 /\ attempts[q] = 1 /\ released[q] = 0

\* C11: the ports main writes are a subsequence of port_start..port_end in
\* that order: every written port is in the range, they are written in
\* strictly increasing order (so none twice), and they are exactly the set
\* bits of the table main obtained, in whatever order the attempts completed.
PrintedSet == {printed[k] : k \in 1..Len(printed)}
C11_OutputIsSubsequence ==
    /\ PrintedSet \subseteq Range
    /\ \A j, k \in 1..Len(printed) : j < k => printed[j] < printed[k]
    /\ mainpc = "exit0" => PrintedSet = result
    /\ mainpc # "exit0" => printed = << >>
\* a thread-pool scan by two workers has written both ports of its range
C11_Witness ==
    /\ mainpc = "exit0" /\ variant = "pool" /\ threadPoolSize = 2
    /\ printed = <<0, 1>>

\* C12: an asio::system_error thrown inside the asio scan ends main with
\* exit status 1, and no opened port is written then, whatever the table
\* holds when the error is thrown.
C12_SystemErrorIsFatal ==
    /\ [](mainpc = "exit1" => printed = << >>)
    /\ [][AsioSystemError => (mainpc' = "exit1" /\ printed' = << >>)]_vars
\* the error came after a connect handler had found a port open
C12_Witness ==
    /\ variant = "asio" /\ mainpc = "exit1" /\ printed = << >>
    /\ \E p \in Range : outcome[p] = "open"

\* C21: in a pool with at least one worker every submitted task is run
\* exactly once by exactly one worker: at every moment a submitted task is
\* either still queued (once) or has been taken (once, by one worker), never
\* both and never twice; a task not yet submitted is nowhere; a worker exits
\* only when the queue is shut down and empty, so the tasks queued at
\* shutdown are drained; when shutdown has returned every task has run to
\* its end.
Queued(p) == Cardinality({k \in 1..Len(tasks) : tasks[k] = p})
Submitted == port_start..(loop_i - 1)
C21_EachTaskOnce ==
    (variant = "pool" /\ threadPoolSize >= 1) =>
        /\ \A p \in Submitted : Queued(p) + attempts[p] = 1
        /\ \A p \in Ports \ Submitted : Queued(p) = 0 /\ attempts[p] = 0
        /\ \A p \in Ports : Cardinality({w \in Workers : wtask[w] = p}) <= attempts[p]
        /\ \A w \in Workers : wpc[w] = "exited" => (tasks = <<>> /\ ~running)
        /\ mainpc \in {"done", "exit0"} =>
                \A p \in Range : attempts[p] = 1 /\ outcome[p] # "none"
\* shutdown has been called while a task is still queued and another is
\* being run
C21_Witness ==
    /\ variant = "pool" /\ threadPoolSize >= 1
    /\ mainpc = "join" /\ ~running /\ tasks # <<>>
    /\ \E w \in Workers : wtask[w] # -1

\* C23: the asio scan returns only when every connect handler and every
\* timer handler it started has run, and the table does not change after
\* that; while the scanner lives a set bit is never cleared; a port's bit is
\* set iff one of its attempts completed without error, so that is what
\* main reports.
AsioReturned == variant = "asio" /\ mainpc \in {"done", "exit0"}
Unfinished(p) == att[p]["pending"] + att[p]["connected"] + att[p]["failed"]
Finished(p) == att[p]["fin_ok"] + att[p]["fin_fail"] + att[p]["timedout"]
Succeeded(p) == att[p]["connected"] + att[p]["fin_ok"]
C23_AsioTableFinal ==
    /\ [](AsioReturned =>
            /\ \A p \in Ports : Unfinished(p) = 0 /\ Finished(p) = attempts[p]
            /\ result = table
            /\ \A p \in Ports : p \in result <=> att[p]["fin_ok"] > 0)
    /\ []((variant = "asio" /\ mainpc # "exit1") =>
            \A p \in Ports : p \in table <=> Succeeded(p) > 0)
    /\ [][(variant = "asio" /\ mainpc' # "exit1") => table \subseteq table']_vars
    /\ [][AsioReturned => table' = table]_vars
\* the scan has returned and reports a port of which one attempt succeeded
\* and another failed
C23_Witness ==
    /\ AsioReturned
    /\ \E p \in Range :
        /\ p \in result /\ att[p]["fin_ok"] >= 1 /\ att[p]["fin_fail"] >= 1

\* --------------------------------- SpecLive: the pool under fair scheduling
\* Every thread that can take a step eventually takes one: main goes on
\* submitting, shutting down and joining, and each worker goes on popping,
\* running its task (Socket::connect returns by its timeout) and exiting.
\* Nothing makes cv.wait return other than a notification. The scan is of
\* the whole range of ports, all of them accepting, by a pool of any size.
InitLive ==
    /\ InitPool
    /\ port_start = 0 /\ port_end = MaxPort
    /\ net = [p \in Ports |-> "open"]
    /\ nrvo
NextLive == NextPool \/ ShutdownAgain
\* a step of the main thread; a step of worker w other than entering cv.wait
\* or leaving it unnotified
MainStep == MainSubmit \/ MainReturn \/ MainJoin \/ ShutdownAgain
WorkerStep(w) ==
    /\ w \in Workers
    /\ \/ WorkerTake(w) \/ WorkerExit(w) \/ WorkerConnect(w)
       \/ WorkerSetLoad(w) \/ WorkerSetStore(w)
Fairness ==
    /\ WF_vars(MainStep)
    /\ \A w \in 1..MaxWorkers : WF_vars(WorkerStep(w))
SpecLive == InitLive /\ [][NextLive]_vars /\ Fairness

\* C22: the first shutdown eventually returns, with every worker exited,
\* and with the queue empty if every submitted task comes to its end; no
\* worker is left in cv.wait once the queue is shut down (no wake-up is
\* lost); and a second shutdown returns as well.
AllExited == \A w \in Workers : wpc[w] = "exited"
C22_ShutdownTerminates ==
    /\ <>(shutdowns >= 1 /\ AllExited)
    /\ (\A p \in Ports : <>(p \notin Range \/ outcome[p] # "none"))
            => <>(shutdowns >= 1 /\ AllExited /\ tasks = <<>>)
    /\ [](~running => \A w \in Workers : wpc[w] # "waiting")
    /\ <>(shutdowns = 2)
\* the second shutdown of a pool has returned, whose workers had tasks to run
C22_Witness ==
    /\ variant = "pool" /\ threadPoolSize >= 1 /\ shutdowns = 2
    /\ AllExited /\ tasks = <<>>
    /\ \A p \in Range : outcome[p] # "none"

\* C20 (as claimed): the table the thread-pool scan hands back is read only
\* after every submitted task has finished: once the result has been taken
\* (the copy at `return table`, or the caller reading the elided object
\* after the return) or the local table's lifetime has ended, no worker has
\* a task in hand and no task is left for a worker to take.
ResultTaken == mainpc \in {"done", "exit0"} \/ ~tableAlive
C20_ReadAfterAllTasks ==
    (variant = "pool" /\ ResultTaken) =>
        /\ \A w \in Workers : wtask[w] = -1
        /\ Workers # {} => tasks = << >>

\* ------------------------------------------------ SpecTwice: a repeated scan
\* the program is run again on the same target, range, timeout and pool
\* size, by the same build, against the same network
ScanAgain ==
    /\ mainpc = "exit0"
    /\ run = 1
    /\ run' = 2
    /\ first' = [opened |-> result,
                 localfail |-> \E p \in Ports : cause[p] = "localfail"]
    /\ tasks' = << >>
    /\ running' = TRUE
    /\ mainpc' = IF variant = "pool" THEN "submit" ELSE "scan_all"
    /\ loop_i' = port_start
    /\ wpc' = [w \in Workers |-> "pop"]
    /\ wtask' = [w \in Workers |-> -1]
    /\ wret' = [w \in Workers |-> FALSE]
    /\ wword' = [w \in Workers |-> {}]
    /\ wsock' = [w \in Workers |-> -1]
    /\ table' = {}
    /\ tableAlive' = TRUE
    /\ result' = {}
    /\ attempts' = [p \in Ports |-> 0]
    /\ outcome' = [p \in Ports |-> "none"]
    /\ cause' = [p \in Ports |-> "none"]
    /\ acquired' = [p \in Ports |-> 0]
    /\ released' = [p \in Ports |-> 0]
    /\ openFds' = {}
    /\ pass' = 1
    /\ att' = [p \in Ports |-> NoAttempts]
    /\ printed' = << >>
    /\ shutdowns' = 0
    /\ UNCHANGED <<variant, port_start, port_end, threadPoolSize, net, nrvo,
                   connectVars, frontVars, parseVars>>

NextTwice == Next \/ ScanAgain
SpecTwice == Init /\ [][NextTwice]_vars

\* C19 (as claimed): two scans with the same inputs against the same
\* network report the same opened ports, whatever the interleavings of the
\* two runs. Stated for the thread-pool scan in the most favourable runs:
\* the copy of `return table` elided, at least one worker, no local call
\* failing in either run.
C19_SameResultTwice ==
    (/\ run = 2 /\ mainpc = "exit0"
     /\ variant = "pool" /\ nrvo /\ threadPoolSize >= 1
     /\ ~first.localfail /\ \A p \in Ports : cause[p] # "localfail")
        => result = first.opened

\* ------------------------------------------- SpecConnect: one connect call
allScanVars ==
    <<variant, port_start, port_end, threadPoolSize, net, nrvo, poolVars,
      mainpc, loop_i, table, tableAlive, result, attempts, outcome, acquired,
      released, cause, openFds, asioVars, printed, shutdowns, run, first>>

\* no scan runs
ScanIdle ==
    /\ variant = "none"
    /\ port_start = 0
    /\ port_end = 0
    /\ threadPoolSize = 0
    /\ net = [p \in Ports |-> "refused"]
    /\ nrvo = TRUE
    /\ tasks = <<>>
    /\ running = TRUE
    /\ mainpc = "done"
    /\ loop_i = 0
    /\ wpc = << >>
    /\ wtask = << >>
    /\ wret = << >>
    /\ wword = << >>
    /\ wsock = << >>
    /\ table = {}
    /\ tableAlive = TRUE
    /\ result = {}
    /\ attempts = [p \in Ports |-> 0]
    /\ outcome = [p \in Ports |-> "none"]
    /\ cause = [p \in Ports |-> "none"]
    /\ acquired = [p \in Ports |-> 0]
    /\ released = [p \in Ports |-> 0]
    /\ openFds = {}
    /\ pass = 1
    /\ att = [p \in Ports |-> NoAttempts]
    /\ printed = << >>
    /\ shutdowns = 0
    /\ run = 1
    /\ first = NoFirst

InitConnect ==
    /\ ScanIdle
    /\ platform \in {"posix", "windows"}
    /\ cenv \in AllEnvs
    /\ cpc = "call"
    /\ cresult = FALSE
    /\ FrontIdle
    /\ ParseIdle

\* Socket::connect runs from its first line to its return
ConnectCall ==
    /\ cpc = "call"
    /\ cresult' = IF platform = "posix" THEN SocketConnect(cenv)
                                         ELSE SocketConnectWin(cenv)
    /\ cpc' = "returned"
    /\ UNCHANGED <<allScanVars, frontVars, parseVars, platform, cenv>>

NextConnect == ConnectCall
SpecConnect == InitConnect /\ [][NextConnect]_vars

\* the non-blocking ::connect call was made, and what it reported
ConnectIssued == cenv.pton /\ cenv.getfl /\ cenv.setfl
\* the wait was made and reported the socket ready
WaitReady == ConnectIssued /\ cenv.conn = "inprogress" /\ cenv.poll > 0

\* C7: the POSIX Socket::connect returns true exactly when ::connect
\* reported immediate success, or reported in-progress and the wait reported
\* the socket ready and SO_ERROR was readable and zero.
C7_OpenExactlyWhen ==
    (cpc = "returned" /\ platform = "posix") =>
        (cresult <=>
            /\ ConnectIssued
            /\ \/ cenv.conn = "ok"
               \/ /\ cenv.conn = "inprogress"
                  /\ cenv.poll > 0
                  /\ cenv.gso = 0
                  /\ cenv.soerr = 0)
\* a call returned true after the wait and a readable, zero SO_ERROR
C7_Witness ==
    /\ cpc = "returned" /\ platform = "posix" /\ cresult
    /\ cenv.conn = "inprogress" /\ cenv.gso = 0 /\ cenv.soerr = 0

\* C8 (as claimed): Socket::connect never returns true when the readiness
\* event of the in-progress socket carries an error or hangup condition.
C8_ErrorOrHangupMeansClosed ==
    (/\ cpc = "returned"
     /\ IF platform = "posix" THEN WaitReady
        ELSE cenv.pton /\ cenv.conn = "inprogress" /\ cenv.poll > 0
     /\ cenv.revents \cap {"POLLERR", "POLLHUP"} # {})
        => ~cresult

\* ------------------------------------------------ SpecFront: the two mains
\* the texts tried for a number: empty, small, the last port, one past it,
\* not a number, 2^32 + 1 and 2^31 (which wrap)
NumTexts ==
    {<< >>, <<"0">>, <<"7">>, <<"6", "5", "5", "3", "5">>,
     <<"6", "5", "5", "3", "6">>, <<"7", "a">>,
     <<"4", "2", "9", "4", "9", "6", "7", "2", "9", "7">>,
     <<"2", "1", "4", "7", "4", "8", "3", "6", "4", "8">>}
IpTexts == {<<"1", ".", "1", ".", "1", ".", "1">>}
\* the argument counts tried: no file named, one file, one argument too many
ArgCounts == {1, 2, 3}

\* mutant: only a missing key stops main, an invalid value does not
ExtractFailed_OnlyNotFound(err) ==
    err \in {"not_found_ip", "not_found_port_start", "not_found_port_end",
             "not_found_timeout_millisec"}
\* main's test of what config_extract returned
ExtractFailed(err) == err # "success"

InitFront ==
    /\ ScanIdle
    /\ ConnectIdle
    /\ ParseIdle
    /\ front \in {"config", "interactive"}
    /\ IF front = "config"
         THEN input \in [ip : IpTexts \cup {Absent},
                         port_start : NumTexts \cup {Absent},
                         port_end : NumTexts \cup {Absent},
                         timeout_millisec : {<<"7">>, <<"7", "a">>, Absent},
                         thread_pool_size : {Absent}]
         ELSE input \in [ip : IpTexts, port_start : NumTexts,
                         port_end : NumTexts,
                         timeout_millisec : {<<"7">>, <<"7", "a">>},
                         thread_pool_size : {<< >>, <<"0">>, <<"7">>, <<"7", "a">>}]
    /\ IF front = "config"
         THEN argc \in ArgCounts /\ file_opens \in BOOLEAN
         ELSE argc = 1 /\ file_opens = FALSE
    /\ config = OldConfig
    /\ fpc = "start"
    /\ ferr = ""
    /\ scan_args = NoArgs

\* main of port_scanner_linux.cpp / of the asio program: the argument
\* count, ConfigParser::parse opening the file (FileNotFoundException is
\* caught in main), config_extract, then return 1 or the call of scan
ConfigMain ==
    /\ front = "config"
    /\ fpc = "start"
    /\ IF argc # 2
         THEN /\ ferr' = "usage"
              /\ fpc' = "exit1"
              /\ UNCHANGED <<config, scan_args>>
       ELSE IF ~file_opens
         THEN /\ ferr' = "given config file does not exist"
              /\ fpc' = "exit1"
              /\ UNCHANGED <<config, scan_args>>
       ELSE LET r == config_extract(input, config) IN
            /\ config' = r.config
            /\ ferr' = r.err
            /\ IF ExtractFailed(r.err)
                 THEN fpc' = "exit1" /\ UNCHANGED scan_args
                 ELSE /\ fpc' = "scan"
                      /\ scan_args' = [port_start |-> r.config.port_start,
                                       port_end |-> r.config.port_end,
                                       thread_pool_size |-> 256,
                                       timeout_millisec |-> r.config.timeout_millisec]
    /\ UNCHANGED <<allScanVars, connectVars, parseVars, front, input, argc,
                   file_opens>>

\* main of the interactive program up to its call of scan
InteractiveMain ==
    /\ front = "interactive"
    /\ fpc = "start"
    /\ LET r == interactive_main(input) IN
        /\ ferr' = r.msg
        /\ IF r.msg = ""
             THEN /\ fpc' = "scan"
                  /\ scan_args' = [port_start |-> r.port_start,
                                   port_end |-> r.port_end,
                                   thread_pool_size |-> r.thread_pool_size,
                                   timeout_millisec |-> r.timeout_millisec]
             ELSE fpc' = "exit1" /\ UNCHANGED scan_args
    /\ UNCHANGED <<allScanVars, connectVars, parseVars, front, input, config,
                   argc, file_opens>>

\* the scan indexes the table with every i of port_start..port_end: an index
\* past the table makes bitset throw, which nothing catches
FrontScan ==
    /\ fpc = "scan"
    /\ fpc' = IF \E i \in {scan_args.port_start, scan_args.port_end} : OutOfRange(i)
                THEN "abort" ELSE "scanned"
    /\ UNCHANGED <<allScanVars, connectVars, parseVars, front, input, config,
                   ferr, scan_args, argc, file_opens>>

NextFront == ConfigMain \/ InteractiveMain \/ FrontScan
SpecFront == InitFront /\ [][NextFront]_vars

\* C10 (as claimed): every port handed to the scan by a front end that
\* accepted its input, hence every index of the table the scan uses, lies
\* in [0,65535]; no table access is out of range.
C10_PortsWithinTable ==
    /\ fpc \in {"scan", "scanned", "abort"} =>
        /\ 0 <= scan_args.port_start
        /\ scan_args.port_end <= 65535
    /\ fpc # "abort"

\* the config-driven main has run config_extract on the map it read
Extracted == front = "config" /\ fpc # "start" /\ argc = 2 /\ file_opens
\* a text made of decimal digits only
DigitString(str) == str # Absent /\ \A k \in 1..Len(str) : str[k] \in Digits

\* C13 (as claimed): config_extract returns not_found_<key> for the first
\* absent key in the order ip, port_start, port_end, timeout_millisec, else
\* invalid_<key> for the first value in the order port_start, port_end,
\* timeout_millisec that is not a digit string, else success.
C13_ErrorKinds ==
    Extracted =>
        ferr = IF input.ip = Absent THEN "not_found_ip"
               ELSE IF input.port_start = Absent THEN "not_found_port_start"
               ELSE IF input.port_end = Absent THEN "not_found_port_end"
               ELSE IF input.timeout_millisec = Absent
                    THEN "not_found_timeout_millisec"
               ELSE IF ~DigitString(input.port_start) THEN "invalid_port_start"
               ELSE IF ~DigitString(input.port_end) THEN "invalid_port_end"
               ELSE IF ~DigitString(input.timeout_millisec)
                    THEN "invalid_timeout_millisec"
               ELSE "success"

\* C15: when the argument count is wrong, the config file cannot be opened
\* or config_extract returns anything but success, the config-driven main
\* returns 1 and starts no scan: scan is never called, no thread pool
\* exists and no connection attempt is made.
ConfigInError ==
    \/ argc # 2
    \/ ~file_opens
    \/ config_extract(input, OldConfig).err # "success"
C15_ConfigErrorStopsMain ==
    (front = "config" /\ fpc # "start" /\ ConfigInError) =>
        /\ fpc = "exit1"
        /\ scan_args = NoArgs
        /\ variant = "none" /\ Workers = {}
        /\ \A p \in Ports : attempts[p] = 0
\* main has returned 1 because a value of a readable config file is invalid
C15_Witness ==
    /\ front = "config" /\ fpc = "exit1" /\ argc = 2 /\ file_opens
    /\ ferr = "invalid_port_end"

\* C16: on success config.port_start is the smaller and config.port_end the
\* larger of the two parsed values, in whichever order they were given.
C16_RangeWellFormed ==
    (Extracted /\ ferr = "success") =>
        LET a == parse_positive_integer(input.port_start)
            b == parse_positive_integer(input.port_end)
        IN /\ config.port_start <= config.port_end
           /\ config.port_start \in {a, b} /\ config.port_end \in {a, b}
           /\ config.port_start <= a /\ config.port_start <= b
           /\ config.port_end >= a /\ config.port_end >= b
\* a config whose port_start is larger than its port_end was extracted
C16_Witness ==
    /\ Extracted /\ ferr = "success"
    /\ parse_positive_integer(input.port_start)
            > parse_positive_integer(input.port_end)
    /\ config.port_start < config.port_end

\* the interactive main accepted its input and called scan
InteractiveAccepted == front = "interactive" /\ fpc # "start" /\ ferr = ""

\* C17 (as claimed): the interactive main calls scan with the range
\* [min(a, b), max(a, b)] of the two ports entered, in either order.
C17_InteractiveRange ==
    InteractiveAccepted =>
        LET a == parse_port(input.port_start)
            b == parse_port(input.port_end)
        IN /\ scan_args.port_start = IF a < b THEN a ELSE b
           /\ scan_args.port_end = IF a > b THEN a ELSE b

\* C18 (as claimed): the interactive main passes a thread pool size of at
\* least 1 to scan for every input it accepts.
C18_PoolSizePositive ==
    InteractiveAccepted => scan_args.thread_pool_size >= 1

\* the decimal value of a digit string of at most five digits
RECURSIVE SmallValue(_)
SmallValue(str) ==
    IF str = << >> THEN 0
    ELSE 10 * SmallValue(SubSeq(str, 1, Len(str) - 1)) + DigitVal(str[Len(str)])
\* the digit string without its leading zeros
RECURSIVE StripZeros(_)
StripZeros(str) ==
    IF str # << >> /\ Head(str) = "0" THEN StripZeros(Tail(str)) ELSE str
\* the decimal value of the digit string exceeds 65535
Exceeds65535(str) ==
    LET sig == StripZeros(str) IN
    Len(sig) > 5 \/ (Len(sig) = 5 /\ SmallValue(sig) > 65535)
\* what the claim says parse_port returns
DecimalPort(str) ==
    IF ~DigitString(str) THEN -1
    ELSE IF Exceeds65535(str) THEN -1
    ELSE SmallValue(StripZeros(str))

\* C24 (as claimed): parse_port returns -1 for every text with a non-digit
\* character and for every digit string whose decimal value exceeds 65535,
\* and the decimal value otherwise, int arithmetic wrapping at 32 bits; so
\* the interactive main rejects exactly the start ports that are no port.
C24_ParsePortExact ==
    (front = "interactive" /\ fpc # "start") =>
        /\ parse_port(input.port_start) = DecimalPort(input.port_start)
        /\ parse_port(input.port_end) = DecimalPort(input.port_end)
        /\ ferr = "invalid start port" <=> DecimalPort(input.port_start) = -1

\* C25 (as claimed): when config_extract returns anything but success the
\* Config object it was given is unchanged in every field.
C25_ConfigUntouchedOnFailure ==
    (Extracted /\ ferr # "success") => config = OldConfig

\* --------------------------------------------- SpecParse: one config line
\* the lines of at most MaxLen characters
RECURSIVE LinesUpTo(_)
LinesUpTo(n) ==
    IF n = 0 THEN {<< >>}
    ELSE LET shorter == LinesUpTo(n - 1) IN
         shorter \cup {Append(l, c) : l \in {m \in shorter : Len(m) = n - 1},
                                      c \in Chars}

InitParse ==
    /\ ScanIdle
    /\ ConnectIdle
    /\ FrontIdle
    /\ line \in LinesUpTo(MaxLen)
    /\ resultMap = {}
    /\ ppc = "read"

\* the body of parse's loop for the line read: an empty line is skipped,
\* any other is given to process_line
ParseLine ==
    /\ ppc = "read"
    /\ resultMap' = IF line # << >> THEN process_line(line, resultMap)
                                    ELSE resultMap
    /\ ppc' = "done"
    /\ UNCHANGED <<allScanVars, connectVars, frontVars, line>>

NextParse == ParseLine
SpecParse == InitParse /\ [][NextParse]_vars

\* the text without its leading and trailing blanks
RECURSIVE Trimmed(_)
Trimmed(t) ==
    IF t = << >> THEN t
    ELSE IF IsSpace(Head(t)) THEN Trimmed(Tail(t))
    ELSE IF IsSpace(t[Len(t)]) THEN Trimmed(SubSeq(t, 1, Len(t) - 1))
    ELSE t
\* the parts of a line around its first '=' (a key holds no '=')
HasEq(l) == \E k \in 1..Len(l) : l[k] = "="
FirstEq(l) == CHOOSE k \in 1..Len(l) : l[k] = "=" /\ \A j \in 1..(k - 1) : l[j] # "="
FormKey(l) == Trimmed(SubSeq(l, 1, FirstEq(l) - 1))
FormValue(l) == Trimmed(SubSeq(l, FirstEq(l) + 1, Len(l)))
\* the line is [blanks] key [blanks] '=' [blanks] value [blanks], the key
\* without blank and '=', the value not empty
OfForm(l) ==
    /\ HasEq(l)
    /\ FormKey(l) # << >>
    /\ \A k \in 1..Len(FormKey(l)) : ~IsSpace(FormKey(l)[k])
    /\ FormValue(l) # << >>

\* C14 (as claimed): process_line adds the pair (key, value), trimmed, for
\* every line of the form [blanks] key [blanks] '=' [blanks] value [blanks]
\* and adds nothing for any other line.
C14_ProcessLine ==
    ppc = "done" /\ line # << >> =>
        resultMap = IF OfForm(line) THEN {<<FormKey(line), FormValue(line)>>}
                                    ELSE {}

====
